---- MODULE Spec2Model ----
(***************************************************************************)
(* Model of the identity and data-access core of ariamh/my-api:            *)
(*   - the generic repository and the user repository (GORM backed),       *)
(*   - the user service (Create / FindByID / FindAll / Update / Delete),   *)
(*   - the auth service (Login),                                           *)
(*   - the JWT manager (Generate / Validate),                              *)
(*   - the HTTP handlers, the Auth and RoleRequired middleware and the     *)
(*     routes of /api/v1,                                                  *)
(*   - concurrent callers of the user service.                             *)
(*                                                                         *)
(* Optional values (Go pointers that may be nil) are sequences of length   *)
(* 0 or 1.  Go error values are strings compared by identity; "nil" is the *)
(* nil error.                                                              *)
(***************************************************************************)
EXTENDS Integers, Sequences, FiniteSets, TLC

VARIABLES db, now, last, issued, run, pkg

vars == <<db, now, last, issued, run, pkg>>

(***************************************************************************)
(* Bounds                                                                  *)
(***************************************************************************)
\* rows the users table may hold (soft-deleted rows included)
MaxUsers == 2
\* last instant of the clock
MaxTime == 3
\* width of a Go int in the model (the builds have 32 or 64)
IntBits == 16
\* constructions of one package's instance the model follows
MaxBuilds == 3

(***************************************************************************)
(* Error values                                                            *)
(***************************************************************************)
NoErr == "nil"
ErrUserNotFound == "user not found"
ErrEmailAlreadyExists == "email already exists"
ErrInvalidCredentials == "invalid credentials"
ErrInvalidToken == "invalid token"
\* gorm.ErrRecordNotFound
ErrRecordNotFound == "record not found"
\* unique index violation reported by the backend on insert
ErrDuplicatedKey == "duplicated key not allowed"
\* failure of the backend itself
ErrConnRefused == "connection refused"
\* failure of the token signer
ErrSigning == "signing failed"

\* outcome the backend imposes on one store call: none, or an outage
Faults == {NoErr, ErrConnRefused}

(***************************************************************************)
(* Input domains                                                           *)
(***************************************************************************)
Names == {"", "ann", "bob"}
Emails == {"a@x.io", "b@x.io"}
Passwords == {"pw1", "pw2"}
Salts == {1}

(***************************************************************************)
(* Go int arithmetic                                                       *)
(***************************************************************************)
\* math.MaxInt and math.MinInt at the model's width
IntMax == 2 ^ (IntBits - 1) - 1
IntMin == 0 - 2 ^ (IntBits - 1)
\* two's complement wrap-around of an int result
WrapInt(n) == ((n - IntMin) % (2 ^ IntBits)) + IntMin

\* Go's truncated division and remainder (operands of the same sign here)
GoDiv(a, b) == IF a >= 0 THEN a \div b ELSE 0 - ((0 - a) \div b)
GoMod(a, b) == a - b * GoDiv(a, b)

(***************************************************************************)
(* model.User and the users table                                          *)
(***************************************************************************)
\* uuid.UUID.String(): an injective rendering of the id
UUIDString(id) == <<"uuid", id>>

\* a row of the users table: model.User with the embedded model.Base
\* (ID, soft-delete mark)
User(id, name, email, password, role, active) ==
    [id |-> id, name |-> name, email |-> email, password |-> password,
     role |-> role, is_active |-> active, deleted |-> FALSE]

\* indexes of the rows a query sees (soft-deleted rows are filtered out)
Live(d) == {i \in 1 .. Len(d) : ~d[i].deleted}

Lowest(S) == CHOOSE i \in S : \A j \in S : i <= j

(***************************************************************************)
(* bcrypt                                                                  *)
(***************************************************************************)
ErrPasswordTooLong == "bcrypt: password length exceeds 72 bytes"

\* the bytes of a password that reach the cipher's key schedule: the first 72
BcryptKey(password) ==
    IF Len(password) > 72 THEN SubSeq(password, 1, 72) ELSE password

\* Digest stands for the one-way digest of the salt and the password's key
Digest(salt, password) == <<"digest", salt, BcryptKey(password)>>

\* bcrypt.GenerateFromPassword: the hash embeds the salt, never the plaintext
\* itself; a password of more than 72 bytes is refused
GenerateFromPassword(password, salt) ==
    IF Len(password) > 72 THEN [hash |-> <<>>, err |-> ErrPasswordTooLong]
    ELSE [hash |-> <<"$2a", salt, Digest(salt, password)>>, err |-> NoErr]

\* a stored value that is no bcrypt hash
MalformedHash == <<"not-a-hash">>

\* bcrypt.CompareHashAndPassword: nil exactly when the hash is well formed
\* and is the digest of the password's key under the embedded salt (the
\* length of the password is not looked at)
CompareHashAndPassword(hash, password) ==
    IF Len(hash) = 3 /\ hash[1] = "$2a" /\ hash[3] = Digest(hash[2], password)
    THEN NoErr ELSE "hashedPassword is not the hash of the given password"

(***************************************************************************)
(* repository.BaseRepository[model.User] and repository.userRepository     *)
(* Every operation takes the fault the backend imposes on that call.       *)
(***************************************************************************)
\* Create on a table without the unique index on email
RepoCreateUnindexed(d, user, fault) ==
    IF fault # NoErr THEN [db |-> d, err |-> fault, user |-> user]
    ELSE LET u == [user EXCEPT !.id = Len(d) + 1]
         IN  [db |-> Append(d, u), err |-> NoErr, user |-> u]

\* Create: the insert is refused when the email is that of a row, live or
\* soft-deleted (unique index on email); the store assigns the id
RepoCreate(d, user, fault) ==
    IF fault # NoErr THEN [db |-> d, err |-> fault, user |-> user]
    ELSE IF \E i \in 1 .. Len(d) : d[i].email = user.email
    THEN [db |-> d, err |-> ErrDuplicatedKey, user |-> user]
    ELSE LET u == [user EXCEPT !.id = Len(d) + 1]
         IN  [db |-> Append(d, u), err |-> NoErr, user |-> u]

RepoFindByID(d, id, fault) ==
    LET hit == {i \in Live(d) : UUIDString(d[i].id) = id}
    IN  IF fault # NoErr THEN [user |-> <<>>, err |-> fault]
        ELSE IF hit = {} THEN [user |-> <<>>, err |-> ErrRecordNotFound]
        ELSE [user |-> <<d[Lowest(hit)]>>, err |-> NoErr]

RepoFindByEmail(d, email, fault) ==
    LET hit == {i \in Live(d) : d[i].email = email}
    IN  IF fault # NoErr THEN [user |-> <<>>, err |-> fault]
        ELSE IF hit = {} THEN [user |-> <<>>, err |-> ErrRecordNotFound]
        ELSE [user |-> <<d[Lowest(hit)]>>, err |-> NoErr]

\* the live rows in table order
RECURSIVE LiveRows(_)
LiveRows(d) ==
    IF d = <<>> THEN <<>>
    ELSE IF Head(d).deleted THEN LiveRows(Tail(d))
    ELSE <<Head(d)>> \o LiveRows(Tail(d))

\* PageSlice starting one row too far
PageSliceShifted(rows, offset, limit) ==
    LET from == IF offset > 0 THEN offset + 2 ELSE 2
        upto == IF limit >= 0 /\ from + limit - 1 < Len(rows)
                THEN from + limit - 1 ELSE Len(rows)
    IN  IF from > Len(rows) THEN <<>> ELSE SubSeq(rows, from, upto)

\* OFFSET n is applied for n > 0 only, LIMIT n for n >= 0 only
PageSlice(rows, offset, limit) ==
    LET from == IF offset > 0 THEN offset + 1 ELSE 1
        upto == IF limit >= 0 /\ from + limit - 1 < Len(rows)
                THEN from + limit - 1 ELSE Len(rows)
    IN  IF from > Len(rows) THEN <<>> ELSE SubSeq(rows, from, upto)

\* FindAll returning the error of its count query
RepoFindAllCounted(d, page, perPage, countFault, findFault) ==
    IF countFault # NoErr
    THEN [entities |-> <<>>, total |-> 0, err |-> countFault]
    ELSE IF findFault # NoErr
    THEN [entities |-> <<>>, total |-> Len(LiveRows(d)), err |-> findFault]
    ELSE [entities |-> PageSlice(LiveRows(d), WrapInt((page - 1) * perPage),
                                 perPage),
          total |-> Len(LiveRows(d)), err |-> NoErr]

\* FindAll: the result of the count query is not looked at, the error
\* returned is that of the page query
RepoFindAll(d, page, perPage, countFault, findFault) ==
    LET total == IF countFault = NoErr THEN Len(LiveRows(d)) ELSE 0
        offset == WrapInt((page - 1) * perPage)
    IN  IF findFault # NoErr
        THEN [entities |-> <<>>, total |-> total, err |-> findFault]
        ELSE [entities |-> PageSlice(LiveRows(d), offset, perPage),
              total |-> total, err |-> NoErr]

\* Save: write every column of the row with the entity's id; when the
\* UPDATE matches no live row, the insert that follows overwrites, on the
\* conflict of the id, every column of the row, its soft-delete mark included
RepoUpdate(d, user, fault) ==
    IF fault # NoErr THEN [db |-> d, err |-> fault]
    ELSE [db |-> [i \in 1 .. Len(d) |->
                    IF d[i].id = user.id THEN user ELSE d[i]],
          err |-> NoErr]

\* soft delete of the live row with the id; no row is no error
RepoDelete(d, id, fault) ==
    IF fault # NoErr THEN [db |-> d, err |-> fault]
    ELSE [db |-> [i \in 1 .. Len(d) |->
                    IF ~d[i].deleted /\ UUIDString(d[i].id) = id
                    THEN [d[i] EXCEPT !.deleted = TRUE] ELSE d[i]],
          err |-> NoErr]

\* one entry of the trace of store calls an operation made
\* (ret: the user a lookup returned, or none)
Call(fn, arg, ret, err) == [fn |-> fn, arg |-> arg, ret |-> ret, err |-> err]

\* ids handed to the service: those a row may carry and one that none does
IdInputs == {UUIDString(i) : i \in 0 .. MaxUsers}

(***************************************************************************)
(* jwt.JWTManager                                                          *)
(* A manager is its secret and its expireHours; the clock counts hours.    *)
(* A token is <<header, claims, signature>>.                               *)
(***************************************************************************)
Secrets == {"k1", "k2"}
ExpireHours == {0 - 1, 0, 1, 2}
Managers == [secret : Secrets, expireHours : ExpireHours]

\* HMAC of the claims under the secret: equal only for equal secret and claims
Sign(secret, claims) == <<"hmac", secret, claims>>

Claims(userID, email, role, iat, exp) ==
    [UserID |-> userID, Email |-> email, Role |-> role, iat |-> iat, exp |-> exp]

\* Generate with the email and the role changing places
GenerateMixedUp(m, userID, email, role, t, fault) ==
    LET c == Claims(userID, role, email, t, t + m.expireHours)
    IN  IF fault # NoErr THEN [token |-> <<>>, err |-> fault]
        ELSE [token |-> <<"HS256", c, Sign(m.secret, c)>>, err |-> NoErr]

\* Generate: claims with expires_at = now + expireHours, signed with the secret
Generate(m, userID, email, role, t, fault) ==
    LET c == Claims(userID, email, role, t, t + m.expireHours)
    IN  IF fault # NoErr THEN [token |-> <<>>, err |-> fault]
        ELSE [token |-> <<"HS256", c, Sign(m.secret, c)>>, err |-> NoErr]

\* Validate accepting a token at the very instant it expires
ValidateLate(m, token, t) ==
    IF Len(token) # 3 \/ token[1] # "HS256"
    THEN [claims |-> <<>>, err |-> ErrInvalidToken]
    ELSE IF token[3] # Sign(m.secret, token[2])
    THEN [claims |-> <<>>, err |-> ErrInvalidToken]
    ELSE IF token[2].exp < t
    THEN [claims |-> <<>>, err |-> ErrInvalidToken]
    ELSE [claims |-> <<token[2]>>, err |-> NoErr]

\* Validate reporting expiry with an error of its own
ValidateTelling(m, token, t) ==
    IF Len(token) # 3 \/ token[1] # "HS256"
    THEN [claims |-> <<>>, err |-> ErrInvalidToken]
    ELSE IF token[3] # Sign(m.secret, token[2])
    THEN [claims |-> <<>>, err |-> ErrInvalidToken]
    ELSE IF token[2].exp <= t
    THEN [claims |-> <<>>, err |-> "token is expired"]
    ELSE [claims |-> <<token[2]>>, err |-> NoErr]

\* Validate: one error for a malformed token, a signature that does not
\* match the manager's secret and an expiry that is not after now
Validate(m, token, t) ==
    IF Len(token) # 3 \/ token[1] # "HS256"
    THEN [claims |-> <<>>, err |-> ErrInvalidToken]
    ELSE IF token[3] # Sign(m.secret, token[2])
    THEN [claims |-> <<>>, err |-> ErrInvalidToken]
    ELSE IF token[2].exp <= t
    THEN [claims |-> <<>>, err |-> ErrInvalidToken]
    ELSE [claims |-> <<token[2]>>, err |-> NoErr]

(***************************************************************************)
(* service.userService                                                     *)
(* Each operation yields its result, its error, the store calls it made    *)
(* and the table it leaves.                                                *)
(***************************************************************************)
\* toUserResponse carrying the stored password field along
toUserResponseWithPassword(user) ==
    [ID |-> UUIDString(user.id), Name |-> user.name, Email |-> user.email,
     Role |-> user.role, IsActive |-> user.is_active,
     Password |-> user.password]

\* the summary of a user handed outward
toUserResponse(user) ==
    [ID |-> UUIDString(user.id), Name |-> user.name, Email |-> user.email,
     Role |-> user.role, IsActive |-> user.is_active]

\* EmailTaken with the pre-check lost
EmailTakenNever(found) == FALSE

\* Create's pre-check: the lookup returned a user (its error is dropped)
EmailTaken(found) == found.user # <<>>

\* NewUser with the account left inactive
NewUserInactive(input, hash) ==
    User(0, input.Name, input.Email, hash, "user", FALSE)

\* the record Create builds for the store: the input's name and email, the
\* hash in place of the password, the default role, active
NewUser(input, hash) ==
    User(0, input.Name, input.Email, hash, "user", TRUE)

SvcCreate(d, input, salt, f1, f2) ==
    LET found == RepoFindByEmail(d, input.Email, f1)
        c1 == Call("FindByEmail", input.Email, found.user, found.err)
        hashed == GenerateFromPassword(input.Password, salt)
        user == NewUser(input, hashed.hash)
        made == RepoCreate(d, user, f2)
        c2 == Call("Create", user, <<>>, made.err)
    IN  IF EmailTaken(found)
        THEN [out |-> <<>>, err |-> ErrEmailAlreadyExists, calls |-> <<c1>>, db |-> d]
        ELSE IF hashed.err # NoErr
        THEN [out |-> <<>>, err |-> hashed.err, calls |-> <<c1>>, db |-> d]
        ELSE IF made.err # NoErr
        THEN [out |-> <<>>, err |-> made.err, calls |-> <<c1, c2>>, db |-> made.db]
        ELSE [out |-> <<toUserResponse(made.user)>>, err |-> NoErr,
              calls |-> <<c1, c2>>, db |-> made.db]

\* LookupError without the translation of record-not-found
LookupErrorRaw(err) == err

\* the error FindByID, Update and Delete return when their lookup fails
LookupError(err) == IF err = ErrRecordNotFound THEN ErrUserNotFound ELSE err

SvcFindByID(d, id, f1) ==
    LET found == RepoFindByID(d, id, f1)
        c1 == Call("FindByID", id, found.user, found.err)
    IN  IF found.err # NoErr
        THEN [out |-> <<>>, err |-> LookupError(found.err), calls |-> <<c1>>, db |-> d]
        ELSE [out |-> <<toUserResponse(found.user[1])>>, err |-> NoErr,
              calls |-> <<c1>>, db |-> d]

RECURSIVE toUserResponses(_)
toUserResponses(users) ==
    IF users = <<>> THEN <<>>
    ELSE <<toUserResponse(Head(users))>> \o toUserResponses(Tail(users))

\* StoreArgs with the two arguments changing places
StoreArgsSwapped(page, perPage) == <<perPage, page>>

\* the page and page size FindAll hands to the store
StoreArgs(page, perPage) == <<page, perPage>>

SvcFindAll(d, page, perPage, f1, f2) ==
    LET args == StoreArgs(page, perPage)
        got == RepoFindAll(d, args[1], args[2], f1, f2)
        c1 == Call("FindAll", args, <<>>, got.err)
    IN  IF got.err # NoErr
        THEN [out |-> <<>>, total |-> 0, err |-> got.err, calls |-> <<c1>>, db |-> d]
        ELSE [out |-> toUserResponses(got.entities), total |-> got.total,
              err |-> NoErr, calls |-> <<c1>>, db |-> d]

\* ApplyName writing the input's name even when it is empty
ApplyNameAlways(user, input) == [user EXCEPT !.name = input.Name]

\* the record Update hands to the store: the one it looked up, with the
\* input's name when that is not empty
ApplyName(user, input) ==
    IF input.Name # "" THEN [user EXCEPT !.name = input.Name] ELSE user

SvcUpdate(d, id, input, f1, f2) ==
    LET found == RepoFindByID(d, id, f1)
        c1 == Call("FindByID", id, found.user, found.err)
        user == ApplyName(found.user[1], input)
        saved == RepoUpdate(d, user, f2)
        c2 == Call("Update", user, <<>>, saved.err)
    IN  IF found.err # NoErr
        THEN [out |-> <<>>, err |-> LookupError(found.err), calls |-> <<c1>>, db |-> d]
        ELSE IF saved.err # NoErr
        THEN [out |-> <<>>, err |-> saved.err, calls |-> <<c1, c2>>, db |-> saved.db]
        ELSE [out |-> <<toUserResponse(user)>>, err |-> NoErr,
              calls |-> <<c1, c2>>, db |-> saved.db]

\* Delete giving up on a missing record only: any other lookup failure is
\* followed by the store's Delete
SvcDeleteUnlessMissing(d, id, f1, f2) ==
    LET found == RepoFindByID(d, id, f1)
        c1 == Call("FindByID", id, found.user, found.err)
        gone == RepoDelete(d, id, f2)
        c2 == Call("Delete", id, <<>>, gone.err)
    IN  IF found.err = ErrRecordNotFound
        THEN [out |-> <<>>, err |-> ErrUserNotFound, calls |-> <<c1>>, db |-> d]
        ELSE [out |-> <<>>, err |-> gone.err, calls |-> <<c1, c2>>, db |-> gone.db]

SvcDelete(d, id, f1, f2) ==
    LET found == RepoFindByID(d, id, f1)
        c1 == Call("FindByID", id, found.user, found.err)
        gone == RepoDelete(d, id, f2)
        c2 == Call("Delete", id, <<>>, gone.err)
    IN  IF found.err # NoErr
        THEN [out |-> <<>>, err |-> LookupError(found.err), calls |-> <<c1>>, db |-> d]
        ELSE [out |-> <<>>, err |-> gone.err, calls |-> <<c1, c2>>, db |-> gone.db]

(***************************************************************************)
(* service.authService                                                     *)
(***************************************************************************)
\* LoginLookupError telling an unknown email apart
LoginLookupErrorLeaky(err) ==
    IF err = ErrRecordNotFound THEN ErrUserNotFound ELSE ErrInvalidCredentials

\* the error Login returns when its lookup fails, whatever the failure
LoginLookupError(err) == ErrInvalidCredentials

\* PasswordMatches with the comparison's result ignored
PasswordMatchesAlways(user, password) == TRUE

PasswordMatches(user, password) ==
    CompareHashAndPassword(user.password, password) = NoErr

\* Login: lookup, password check, active check, token issue.  gen records
\* the arguments of the Generate call, when one is made.
SvcLogin(d, m, input, t, f1, fsign) ==
    LET found == RepoFindByEmail(d, input.Email, f1)
        c1 == Call("FindByEmail", input.Email, found.user, found.err)
        user == found.user[1]
        tok == Generate(m, UUIDString(user.id), user.email, user.role, t, fsign)
        g == <<UUIDString(user.id), user.email, user.role>>
    IN  IF found.err # NoErr
        THEN [out |-> <<>>, err |-> LoginLookupError(found.err), calls |-> <<c1>>,
              gen |-> <<>>]
        ELSE IF ~PasswordMatches(user, input.Password)
        THEN [out |-> <<>>, err |-> ErrInvalidCredentials, calls |-> <<c1>>,
              gen |-> <<>>]
        ELSE IF ~user.is_active
        THEN [out |-> <<>>, err |-> ErrInvalidCredentials, calls |-> <<c1>>,
              gen |-> <<>>]
        ELSE IF tok.err # NoErr
        THEN [out |-> <<>>, err |-> tok.err, calls |-> <<c1>>, gen |-> <<g>>]
        ELSE [out |-> <<[Token |-> tok.token, User |-> toUserResponse(user)]>>,
              err |-> NoErr, calls |-> <<c1>>, gen |-> <<g>>]

(***************************************************************************)
(* State                                                                   *)
(*   db      the users table, in insertion order, soft-deleted rows kept   *)
(*   now     the clock, in hours                                           *)
(*   last    the record of the last operation: its name, input, result,    *)
(*           error, and the calls it made on its collaborators; for a      *)
(*           request also the handlers of the route that ran (chain), the  *)
(*           request's locals and the response; for FindAll the faults    *)
(*           the backend imposed on the count and on the page query        *)
(*   issued  the token Generate handed out last, with its issuer, subject   *)
(*           and instant of issue (empty before the first Generate)        *)
(*   run     the calls of concurrent clients that are under way, each with *)
(*           its position in the service's code                            *)
(*   pkg     the package-level variables of pkg/logger (log, once) and     *)
(*           pkg/validator (validate), with the number of times each       *)
(*           package ran its construction                                  *)
(***************************************************************************)
HashOf(password, salt) == GenerateFromPassword(password, salt).hash

\* rows that reach the table by other ways than Create: an administrator,
\* a deactivated account, an account whose stored hash is damaged
SeedAdmin == User(1, "ann", "a@x.io", HashOf("pw1", 1), "admin", TRUE)
SeedInactive == User(2, "bob", "b@x.io", HashOf("pw2", 1), "user", FALSE)
SeedDamaged == User(2, "bob", "b@x.io", MalformedHash, "user", TRUE)

InitTables ==
    {<<>>, <<SeedAdmin>>, <<SeedAdmin, SeedInactive>>, <<SeedAdmin, SeedDamaged>>}

\* the manager router.Setup hands to the auth service
LoginManager == [secret |-> "k1", expireHours |-> 1]

\* the clients whose calls may overlap
Clients == {"c1", "c2"}

\* a client with no call under way
Idle == [pc |-> "idle", op |-> "none", in |-> <<>>, found |-> <<>>,
         seen |-> NoErr, out |-> <<>>, err |-> NoErr]
NoRun == [c \in Clients |-> Idle]

\* the package-level variables before any Init or Get: nothing constructed
NoPkg == [log |-> <<>>, once |-> FALSE, logBuilt |-> 0,
          validate |-> <<>>, validateBuilt |-> 0]

NoOp == [op |-> "none", in |-> <<>>, out |-> <<>>, err |-> NoErr,
         calls |-> <<>>, gen |-> <<>>, total |-> 0, changed |-> FALSE,
         svc |-> <<>>, resp |-> [status |-> 0, body |-> <<>>],
         chain |-> <<>>, locals |-> <<>>, faults |-> <<>>]

Init ==
    /\ db \in InitTables
    /\ now = 0
    /\ last = NoOp
    /\ issued = {}
    /\ run = NoRun
    /\ pkg = NoPkg

Tick ==
    /\ now < MaxTime
    /\ now' = now + 1
    /\ UNCHANGED <<db, last, issued, run, pkg>>

Create ==
    \E name \in Names \ {""}, email \in Emails, password \in Passwords,
       salt \in Salts, f1 \in Faults, f2 \in Faults :
        LET input == [Name |-> name, Email |-> email, Password |-> password]
        IN  \E r \in {SvcCreate(db, input, salt, f1, f2)} :
            /\ Len(r.db) <= MaxUsers
            /\ db' = r.db
            /\ last' = [NoOp EXCEPT !.op = "Create", !.in = input, !.out = r.out,
                          !.err = r.err, !.calls = r.calls,
                          !.changed = (r.db # db)]
            /\ UNCHANGED <<now, issued, run, pkg>>

FindByID ==
    \E id \in IdInputs, f1 \in Faults :
        \E r \in {SvcFindByID(db, id, f1)} :
            /\ db' = r.db
            /\ last' = [NoOp EXCEPT !.op = "FindByID", !.in = id, !.out = r.out,
                          !.err = r.err, !.calls = r.calls]
            /\ UNCHANGED <<now, issued, run, pkg>>

Update ==
    \E id \in IdInputs, name \in Names, f1 \in Faults, f2 \in Faults :
        LET input == [Name |-> name]
        IN  \E r \in {SvcUpdate(db, id, input, f1, f2)} :
            /\ db' = r.db
            /\ last' = [NoOp EXCEPT !.op = "Update", !.in = <<id, input>>,
                          !.out = r.out, !.err = r.err, !.calls = r.calls,
                          !.changed = (r.db # db)]
            /\ UNCHANGED <<now, issued, run, pkg>>

Delete ==
    \E id \in IdInputs, f1 \in Faults, f2 \in Faults :
        \E r \in {SvcDelete(db, id, f1, f2)} :
            /\ db' = r.db
            /\ last' = [NoOp EXCEPT !.op = "Delete", !.in = id, !.out = r.out,
                          !.err = r.err, !.calls = r.calls,
                          !.changed = (r.db # db)]
            /\ UNCHANGED <<now, issued, run, pkg>>

Login ==
    \E email \in Emails, password \in Passwords, f1 \in Faults,
       fsign \in {NoErr, ErrSigning} :
        LET input == [Email |-> email, Password |-> password]
        IN  \E r \in {SvcLogin(db, LoginManager, input, now, f1, fsign)} :
            /\ last' = [NoOp EXCEPT !.op = "Login", !.in = input, !.out = r.out,
                          !.err = r.err, !.calls = r.calls, !.gen = r.gen]
            /\ UNCHANGED <<db, now, issued, run, pkg>>

\* FindAll as a caller of the service may use it on the table of the moment
ListUsers ==
    \E page \in {1, 2}, perPage \in {1, 2}, f1 \in Faults, f2 \in Faults :
        \E r \in {SvcFindAll(db, page, perPage, f1, f2)} :
            /\ last' = [NoOp EXCEPT !.op = "FindAll", !.in = <<page, perPage>>,
                          !.out = r.out, !.err = r.err, !.calls = r.calls,
                          !.total = r.total, !.faults = <<f1, f2>>]
            /\ UNCHANGED <<db, now, issued, run, pkg>>

Next == Create \/ FindByID \/ ListUsers \/ Update \/ Delete \/ Login

Spec == Init /\ [][Next]_vars

(***************************************************************************)
(* The JWT manager on its own: any manager issues, any manager validates,  *)
(* at any instant from the issue on.                                       *)
(***************************************************************************)
\* subjects a token is issued for: <<user id, email, role>>
Subjects == {<<UUIDString(1), "a@x.io", "admin">>, <<UUIDString(2), "b@x.io", "user">>}

\* a string that is no token
MalformedToken == <<"invalid-token">>

\* the token with its role claim rewritten and its signature kept
Tampered(token) ==
    <<token[1], [token[2] EXCEPT !.Role = "root"], token[3]>>

\* what a caller may present to Validate
TokenInputs ==
    {MalformedToken} \cup {i.token : i \in issued}
        \cup {Tampered(i.token) : i \in issued}

InitJWT ==
    /\ db = <<>>
    /\ now = 0
    /\ last = NoOp
    /\ issued = {}
    /\ run = NoRun
    /\ pkg = NoPkg

JwtGenerate ==
    \E m \in Managers, sub \in Subjects :
        \E r \in {Generate(m, sub[1], sub[2], sub[3], now, NoErr)} :
            /\ issued' = {[token |-> r.token, mgr |-> m, sub |-> sub, at |-> now]}
            /\ last' = [NoOp EXCEPT !.op = "Generate", !.in = <<m, sub>>,
                          !.out = <<r.token>>, !.err = r.err]
            /\ UNCHANGED <<db, now, run, pkg>>

JwtValidate ==
    \E m \in Managers, token \in TokenInputs :
        \E r \in {Validate(m, token, now)} :
            /\ last' = [NoOp EXCEPT !.op = "Validate",
                          !.in = [mgr |-> m, token |-> token, at |-> now],
                          !.out = r.claims, !.err = r.err]
            /\ UNCHANGED <<db, now, issued, run, pkg>>

NextJWT == Tick \/ JwtGenerate \/ JwtValidate

SpecJWT == InitJWT /\ [][NextJWT]_vars

(***************************************************************************)
(* strconv.Atoi and fiber's Ctx.Query                                      *)
(* A string is a sequence of one-character strings.                        *)
(***************************************************************************)
DigitChars == <<"0", "1", "2", "3", "4", "5", "6", "7", "8", "9">>
IsDigit(c) == \E k \in 1 .. 10 : DigitChars[k] = c
DigitVal(c) == (CHOOSE k \in 1 .. 10 : DigitChars[k] = c) - 1

\* the decimal magnitude of a digit string, saturated just above the range
RECURSIVE Magnitude(_, _)
Magnitude(s, acc) ==
    IF s = <<>> THEN acc
    ELSE IF acc * 10 + DigitVal(Head(s)) > IntMax + 1 THEN IntMax + 1
    ELSE Magnitude(Tail(s), acc * 10 + DigitVal(Head(s)))

\* strconv.Atoi: optional sign, decimal digits; 0 with a syntax error for
\* anything else; the nearest bound of int with a range error on overflow
Atoi(s) ==
    LET neg == s # <<>> /\ s[1] = "-"
        body == IF s # <<>> /\ s[1] \in {"+", "-"} THEN Tail(s) ELSE s
        mag == Magnitude(body, 0)
    IN  IF body = <<>> \/ \E k \in 1 .. Len(body) : ~IsDigit(body[k])
        THEN [n |-> 0, err |-> "invalid syntax"]
        ELSE IF ~neg /\ mag > IntMax
        THEN [n |-> IntMax, err |-> "value out of range"]
        ELSE IF neg /\ mag > IntMax + 1
        THEN [n |-> IntMin, err |-> "value out of range"]
        ELSE [n |-> IF neg THEN 0 - mag ELSE mag, err |-> NoErr]

\* Ctx.Query(key, default): the default stands in for a missing or empty value
Query(value, default) == IF value = <<>> THEN default ELSE value

(***************************************************************************)
(* response.Paginated and handler.UserHandler.FindAll                      *)
(***************************************************************************)
PerPageMax == 100
PerPageDefault == 10

\* Paginated without the page that holds the remainder
PaginatedFloor(items, total, page, perPage) ==
    [status |-> 200,
     body |-> [items |-> items, total |-> total, page |-> page,
               per_page |-> perPage, total_pages |-> GoDiv(total, perPage)]]

Paginated(items, total, page, perPage) ==
    LET whole == GoDiv(total, perPage)
        totalPages == IF GoMod(total, perPage) > 0 THEN whole + 1 ELSE whole
    IN  [status |-> 200,
         body |-> [items |-> items, total |-> total, page |-> page,
                   per_page |-> perPage, total_pages |-> totalPages]]

InternalServerError(message) == [status |-> 500, body |-> message]

\* the page number the handler passes on
NormPage(page) == IF page < 1 THEN 1 ELSE page
\* NormPerPage without the upper limit
NormPerPageUnlimited(perPage) == IF perPage < 1 THEN PerPageDefault ELSE perPage

\* the page size the handler passes on
NormPerPage(perPage) ==
    IF perPage < 1 \/ perPage > PerPageMax THEN PerPageDefault ELSE perPage

\* GET /users: svc records the calls made on the user service
HandlerFindAll(d, pageQ, perPageQ, f1, f2) ==
    LET page == NormPage(Atoi(Query(pageQ, <<"1">>)).n)
        perPage == NormPerPage(Atoi(Query(perPageQ, <<"1", "0">>)).n)
        r == SvcFindAll(d, page, perPage, f1, f2)
        svc == <<[fn |-> "FindAll", page |-> page, perPage |-> perPage]>>
        resp == IF r.err # NoErr THEN InternalServerError("Failed to fetch users")
                ELSE Paginated(r.out, r.total, page, perPage)
    IN  [resp |-> resp, svc |-> svc, calls |-> r.calls]

(***************************************************************************)
(* The HTTP layer: requests on GET /users over a table that holds anything *)
(* the service can leave in it.                                            *)
(***************************************************************************)
\* the decimal rendering of a natural number
RECURSIVE Itoa(_)
Itoa(n) == IF n < 10 THEN <<DigitChars[n + 1]>>
           ELSE Itoa(n \div 10) \o <<DigitChars[(n % 10) + 1]>>

\* values of the page query parameter: missing, not a number, and integers
\* around the handler's threshold and the bounds of int
PageQueries ==
    {<<>>, <<"a", "b", "c">>, <<"0">>, <<"-", "1">>, <<"2">>,
     Itoa(IntMax), Itoa(IntMax + 1), <<"-">> \o Itoa(IntMax + 2)}

\* values of the per_page query parameter, likewise
PerPageQueries ==
    {<<>>, <<"1", "x">>, <<"0">>, <<"1">>,
     Itoa(PerPageMax), Itoa(PerPageMax + 1), Itoa(IntMax + 1)}

InitHTTP ==
    /\ db \in InitTables
    /\ now = 0
    /\ last = NoOp
    /\ issued = {}
    /\ run = NoRun
    /\ pkg = NoPkg

GetUsers ==
    \E pageQ \in PageQueries, perPageQ \in PerPageQueries,
       f1 \in Faults, f2 \in Faults :
        \E r \in {HandlerFindAll(db, pageQ, perPageQ, f1, f2)} :
            /\ last' = [NoOp EXCEPT !.op = "GET /users",
                          !.in = [page |-> pageQ, per_page |-> perPageQ],
                          !.resp = r.resp, !.svc = r.svc, !.calls = r.calls]
            /\ UNCHANGED <<db, now, issued, run, pkg>>

\* a caller of the user service other than the handler
PageArgs == {0 - 1, 0, 1, 2}
PerPageArgs == {0 - 1, 0, 1, 2, PerPageMax, PerPageMax + 1}

FindAll ==
    \E page \in PageArgs, perPage \in PerPageArgs, f1 \in Faults, f2 \in Faults :
        \E r \in {SvcFindAll(db, page, perPage, f1, f2)} :
            /\ last' = [NoOp EXCEPT !.op = "FindAll", !.in = <<page, perPage>>,
                          !.out = r.out, !.total = r.total, !.err = r.err,
                          !.calls = r.calls, !.faults = <<f1, f2>>]
            /\ UNCHANGED <<db, now, issued, run, pkg>>

NextHTTP == GetUsers \/ FindAll

SpecHTTP == InitHTTP /\ [][NextHTTP]_vars

(***************************************************************************)
(* Properties of the user service and the auth service (Spec)              *)
(***************************************************************************)
\* the first store call of the last operation
FirstCall == last.calls[1]
\* the last operation made a call of this name on the store
Called(fn) == \E k \in 1 .. Len(last.calls) : last.calls[k].fn = fn

\* C1: Create with an email for which FindByEmail returns a user fails with
\* ErrEmailAlreadyExists, returns no result, and makes no Create call on the
\* store (the table is left as it was).
C1_CreateEmailExists ==
    (last.op = "Create" /\ FirstCall.ret # <<>>) =>
        /\ last.err = ErrEmailAlreadyExists
        /\ last.out = <<>>
        /\ ~Called("Create")
        /\ ~last.changed

C1_Witness ==
    /\ last.op = "Create"
    /\ FirstCall.fn = "FindByEmail"
    /\ FirstCall.ret # <<>>
    /\ FirstCall.ret[1].email = last.in.Email
    /\ last.err = ErrEmailAlreadyExists

\* the three ways a login is turned down
LoginNoSuchUser ==
    last.op = "Login" /\ FirstCall.err = ErrRecordNotFound
LoginWrongPassword ==
    /\ last.op = "Login"
    /\ FirstCall.ret # <<>>
    /\ CompareHashAndPassword(FirstCall.ret[1].password, last.in.Password) # NoErr
LoginInactive ==
    /\ last.op = "Login"
    /\ FirstCall.ret # <<>>
    /\ CompareHashAndPassword(FirstCall.ret[1].password, last.in.Password) = NoErr
    /\ ~FirstCall.ret[1].is_active

\* C2: Login returns the same error value ErrInvalidCredentials and no
\* result when no user has the email, when the password does not match the
\* stored hash, and when the matching user is inactive.
C2_LoginFailuresAlike ==
    (LoginNoSuchUser \/ LoginWrongPassword \/ LoginInactive) =>
        (last.err = ErrInvalidCredentials /\ last.out = <<>>)

C2_Witness == LoginInactive /\ last.err = ErrInvalidCredentials

\* C3: Generate is invoked only in a Login whose lookup returned a user
\* whose hash matches the password and who is active, and with that user's
\* id, email and role; without a Generate call no token is returned; on
\* success the summary returned is that user's.
C3_LoginOrder ==
    last.op = "Login" =>
        /\ FirstCall.fn = "FindByEmail"
        /\ last.gen # <<>> =>
              /\ FirstCall.ret # <<>>
              /\ FirstCall.err = NoErr
              /\ CompareHashAndPassword(FirstCall.ret[1].password,
                                        last.in.Password) = NoErr
              /\ FirstCall.ret[1].is_active
              /\ last.gen = << <<UUIDString(FirstCall.ret[1].id),
                                 FirstCall.ret[1].email, FirstCall.ret[1].role>> >>
        /\ last.gen = <<>> => (last.out = <<>> /\ last.err # NoErr)
        /\ last.out # <<>> =>
              /\ last.err = NoErr
              /\ last.out[1].User.ID = UUIDString(FirstCall.ret[1].id)
              /\ last.out[1].User.Name = FirstCall.ret[1].name
              /\ last.out[1].User.Email = FirstCall.ret[1].email
              /\ last.out[1].User.Role = FirstCall.ret[1].role
              /\ last.out[1].User.IsActive = FirstCall.ret[1].is_active

C3_Witness ==
    /\ last.op = "Login"
    /\ last.gen # <<>>
    /\ last.out # <<>>
    /\ last.out[1].User.Email = last.in.Email

\* C4: FindByID, Update and Delete fail with ErrUserNotFound when the store's
\* FindByID reports record-not-found, and return any other FindByID error
\* as it is.
C4_NotFoundMapping ==
    last.op \in {"FindByID", "Update", "Delete"} =>
        /\ FirstCall.fn = "FindByID"
        /\ FirstCall.err = ErrRecordNotFound => last.err = ErrUserNotFound
        /\ FirstCall.err \notin {NoErr, ErrRecordNotFound} =>
              (last.err = FirstCall.err /\ last.err # ErrUserNotFound)

C4_Witness ==
    /\ last.op = "Delete"
    /\ FirstCall.err = ErrRecordNotFound
    /\ last.err = ErrUserNotFound
    /\ db # <<>>

\* C10 (as claimed): a Login whose lookup fails for another reason than the
\* user being absent returns an error that is not ErrInvalidCredentials.
C10_LoginInfrastructureError ==
    (last.op = "Login" /\ FirstCall.err \notin {NoErr, ErrRecordNotFound}) =>
        (last.err # NoErr /\ last.err # ErrInvalidCredentials)

(***************************************************************************)
(* Properties of the JWT manager (SpecJWT)                                 *)
(***************************************************************************)
\* the last operation validated the issued token, untouched
ValidatedIssued(i) ==
    /\ last.op = "Validate"
    /\ i \in issued
    /\ last.in.token = i.token

\* C7: with expireHours > 0, a token passed to Validate on the manager that
\* issued it, at the instant of issue, is accepted, and the claims carry the
\* subject id, email and role it was issued for.
C7_RoundTrip ==
    \A i \in issued :
        (/\ ValidatedIssued(i)
         /\ last.in.mgr = i.mgr
         /\ i.mgr.expireHours > 0
         /\ last.in.at = i.at) =>
            /\ last.err = NoErr
            /\ Len(last.out) = 1
            /\ last.out[1].UserID = i.sub[1]
            /\ last.out[1].Email = i.sub[2]
            /\ last.out[1].Role = i.sub[3]

C7_Witness ==
    \E i \in issued :
        /\ ValidatedIssued(i)
        /\ last.in.mgr = i.mgr
        /\ i.mgr.expireHours > 0
        /\ last.in.at = i.at
        /\ last.err = NoErr

\* C8: with expireHours <= 0, Validate on the issuing manager rejects the
\* token with ErrInvalidToken and no claims, at the instant of issue and at
\* every later one.
C8_ExpiredAtOnce ==
    \A i \in issued :
        (/\ ValidatedIssued(i)
         /\ last.in.mgr = i.mgr
         /\ i.mgr.expireHours <= 0
         /\ last.in.at >= i.at) =>
            (last.err = ErrInvalidToken /\ last.out = <<>>)

C8_Witness ==
    \E i \in issued :
        /\ ValidatedIssued(i)
        /\ last.in.mgr = i.mgr
        /\ i.mgr.expireHours = 0
        /\ last.in.at = i.at
        /\ last.err = ErrInvalidToken

\* the causes of a rejection
RejectWrongSecret ==
    \E i \in issued : ValidatedIssued(i) /\ last.in.mgr.secret # i.mgr.secret
RejectMalformed ==
    last.op = "Validate" /\ last.in.token = MalformedToken
RejectExpired ==
    \E i \in issued :
        /\ ValidatedIssued(i)
        /\ last.in.mgr.secret = i.mgr.secret
        /\ i.at + i.mgr.expireHours <= last.in.at

\* C9: a token signed under another secret, a malformed string and an
\* expired token are all rejected, and every rejection is the one error
\* ErrInvalidToken with no claims.
C9_OneRejection ==
    /\ (RejectWrongSecret \/ RejectMalformed \/ RejectExpired) => last.err # NoErr
    /\ (last.op = "Validate" /\ last.err # NoErr) =>
          (last.err = ErrInvalidToken /\ last.out = <<>>)

C9_Witness ==
    /\ RejectExpired
    /\ ~RejectWrongSecret
    /\ last.in.at > 0
    /\ last.err = ErrInvalidToken

(***************************************************************************)
(* Properties of GET /users (SpecHTTP)                                     *)
(***************************************************************************)
\* the store call the last operation made
StoreCall == last.calls[1]

\* C5 (as claimed): the user service's FindAll reaches the store with page 1
\* for a page below 1, with per_page 10 for a per_page outside [1,100], and
\* with per_page as given inside [1,100].
C5_ServiceNormalizes ==
    last.op = "FindAll" =>
        /\ last.in[1] < 1 => StoreCall.arg[1] = 1
        /\ (last.in[2] < 1 \/ last.in[2] > PerPageMax) =>
              StoreCall.arg[2] = PerPageDefault
        /\ (last.in[2] >= 1 /\ last.in[2] <= PerPageMax) =>
              StoreCall.arg[2] = last.in[2]

\* C5 (amended): the user service's FindAll hands page and per_page to the
\* store as it got them; on GET /users the handler calls it with page >= 1
\* and per_page in [1,100], so there the store is reached with a page of at
\* least 1 and a per_page in [1,100].
C5_HandlerNormalizes ==
    /\ last.op \in {"FindAll", "GET /users"} =>
          /\ Len(last.calls) = 1
          /\ StoreCall.fn = "FindAll"
    /\ last.op = "FindAll" => StoreCall.arg = last.in
    /\ last.op = "GET /users" =>
          /\ StoreCall.arg = <<last.svc[1].page, last.svc[1].perPage>>
          /\ StoreCall.arg[1] >= 1
          /\ StoreCall.arg[2] >= 1
          /\ StoreCall.arg[2] <= PerPageMax

C5_Witness ==
    /\ last.op = "FindAll"
    /\ last.in[1] < 1
    /\ last.in[2] > PerPageMax
    /\ StoreCall.arg = last.in

\* the string is an integer: an optional sign and at least one digit
IsInteger(s) ==
    LET body == IF s # <<>> /\ s[1] \in {"+", "-"} THEN Tail(s) ELSE s
    IN  body # <<>> /\ \A k \in 1 .. Len(body) : IsDigit(body[k])

\* the integer a string of IsInteger denotes
RECURSIVE Denotes(_)
Denotes(s) ==
    IF s[1] = "-" THEN 0 - Denotes(Tail(s))
    ELSE IF s[1] = "+" THEN Denotes(Tail(s))
    ELSE IF Len(s) = 1 THEN DigitVal(s[1])
    ELSE Denotes(SubSeq(s, 1, Len(s) - 1)) * 10 + DigitVal(s[Len(s)])

\* the value of a query parameter: its default when missing, the integer it
\* denotes, and 0 for what is no integer
QueryInt(q, default) ==
    IF q = <<>> THEN default ELSE IF IsInteger(q) THEN Denotes(q) ELSE 0

ClampInt(n) == IF n > IntMax THEN IntMax ELSE IF n < IntMin THEN IntMin ELSE n

\* the page and per_page the claim expects for a parameter value
WantPage(n) == IF n >= 1 THEN n ELSE 1
WantPerPage(n) == IF n >= 1 /\ n <= PerPageMax THEN n ELSE PerPageDefault

\* GET /users called the service once with these values and a paginated
\* response reports them
ServedWith(page, perPage) ==
    /\ last.svc = <<[fn |-> "FindAll", page |-> page, perPage |-> perPage]>>
    /\ last.resp.status = 200 =>
          (last.resp.body.page = page /\ last.resp.body.per_page = perPage)

\* C6 (as claimed): for any page and per_page parameters, missing, not
\* numeric or any integer, the handler calls the service's FindAll once with
\* page' = page if page >= 1 else 1 and per_page' = per_page if
\* 1 <= per_page <= 100 else 10, and the response reports page', per_page'.
C6_AnyInteger ==
    last.op = "GET /users" =>
        ServedWith(WantPage(QueryInt(last.in.page, 1)),
                   WantPerPage(QueryInt(last.in.per_page, PerPageDefault)))

\* C6 (amended): the same, with an integer outside the range of int taken
\* as the nearest bound of int: a page above the largest int is served as
\* the largest int.
C6_IntegersOfInt ==
    last.op = "GET /users" =>
        ServedWith(WantPage(ClampInt(QueryInt(last.in.page, 1))),
                   WantPerPage(ClampInt(QueryInt(last.in.per_page, PerPageDefault))))

C6_Witness ==
    /\ last.op = "GET /users"
    /\ last.in.page = Itoa(IntMax + 1)
    /\ last.in.per_page = Itoa(PerPageMax + 1)
    /\ last.resp.status = 200
    /\ last.resp.body.page = IntMax
    /\ last.resp.body.per_page = PerPageDefault

(***************************************************************************)
(* Properties of the user service's writes (Spec)                          *)
(***************************************************************************)
\* the second store call of the last operation: the write, when one is made
WriteCall == last.calls[2]

\* C11: when the FindByEmail pre-check of Create fails with an error other
\* than record-not-found, Create returns that error and makes no store
\* Create; an error of the store's Create is returned unchanged with no
\* result.
C11_CreatePropagates ==
    last.op = "Create" =>
        /\ FirstCall.err \notin {NoErr, ErrRecordNotFound} =>
              /\ last.err = FirstCall.err
              /\ ~Called("Create")
              /\ ~last.changed
        /\ (Called("Create") /\ WriteCall.err # NoErr) =>
              (last.err = WriteCall.err /\ last.out = <<>>)

\* C12: Update and Delete make their store write only after a FindByID of
\* the same id succeeded in the same call; when FindByID fails, whatever the
\* failure, no write is made and the table is unchanged.
C12_WriteAfterLookup ==
    last.op \in {"Update", "Delete"} =>
        LET id == IF last.op = "Update" THEN last.in[1] ELSE last.in
        IN  /\ FirstCall.fn = "FindByID"
            /\ FirstCall.arg = id
            /\ FirstCall.err # NoErr => (Len(last.calls) = 1 /\ ~last.changed)
            /\ Len(last.calls) > 1 =>
                  /\ Len(last.calls) = 2
                  /\ FirstCall.err = NoErr
                  /\ WriteCall.fn = last.op
                  /\ IF last.op = "Update"
                     THEN UUIDString(WriteCall.arg.id) = id
                     ELSE WriteCall.arg = id

C12_Witness ==
    /\ last.op = "Delete"
    /\ FirstCall.err = ErrConnRefused
    /\ Len(last.calls) = 1
    /\ \E i \in Live(db) : UUIDString(db[i].id) = last.in

\* C13: Update of an existing user writes the input's name when it is not
\* empty and the stored name when it is; the record handed to the store has
\* the id, email, password hash, role and is_active FindByID returned.
C13_UpdateKeepsRest ==
    (last.op = "Update" /\ Called("Update")) =>
        LET was == FirstCall.ret[1]
            put == WriteCall.arg
        IN  /\ put.name = IF last.in[2].Name # "" THEN last.in[2].Name ELSE was.name
            /\ put.id = was.id
            /\ put.email = was.email
            /\ put.password = was.password
            /\ put.role = was.role
            /\ put.is_active = was.is_active

C13_Witness ==
    /\ last.op = "Update"
    /\ Called("Update")
    /\ last.in[2].Name = ""
    /\ WriteCall.arg.name = "ann"
    /\ last.err = NoErr

\* C14: every record Create hands to the store has role "user", is_active
\* true, the input's name and email, and a password field that is the hash
\* of the input's password, not the password; the summary returned carries
\* that name, email, role and is_active.
C14_CreatedRecord ==
    (last.op = "Create" /\ Called("Create")) =>
        LET put == WriteCall.arg
        IN  /\ put.role = "user"
            /\ put.is_active
            /\ put.name = last.in.Name
            /\ put.email = last.in.Email
            /\ \E salt \in Salts : put.password = HashOf(last.in.Password, salt)
            /\ CompareHashAndPassword(put.password, last.in.Password) = NoErr
            /\ last.err = NoErr =>
                  /\ last.out[1].Name = last.in.Name
                  /\ last.out[1].Email = last.in.Email
                  /\ last.out[1].Role = "user"
                  /\ last.out[1].IsActive

C14_Witness ==
    /\ last.op = "Create"
    /\ Called("Create")
    /\ last.err = NoErr
    /\ last.out[1].Name = "bob"
    /\ \E i \in Live(db) : db[i].email = last.in.Email /\ db[i].role = "user"

(***************************************************************************)
(* Passwords of any length: Create and Login on their own                  *)
(***************************************************************************)
\* a password of exactly 72 bytes, and the same followed by one more byte
Password72 ==
    "correct-horse-battery-staple-correct-horse-battery-staple-correct-horse!"
Password73 == Password72 \o "x"
LongPasswords == {"pw1", "pw2", Password72, Password73}

InitCredentials ==
    /\ db \in {<<>>, <<SeedAdmin, SeedDamaged>>}
    /\ now = 0
    /\ last = NoOp
    /\ issued = {}
    /\ run = NoRun
    /\ pkg = NoPkg

CreateWithPassword ==
    \E name \in {"ann"}, email \in Emails, password \in LongPasswords,
       salt \in Salts :
        LET input == [Name |-> name, Email |-> email, Password |-> password]
        IN  \E r \in {SvcCreate(db, input, salt, NoErr, NoErr)} :
            /\ Len(r.db) <= MaxUsers
            /\ db' = r.db
            /\ last' = [NoOp EXCEPT !.op = "Create", !.in = input, !.out = r.out,
                          !.err = r.err, !.calls = r.calls,
                          !.changed = (r.db # db)]
            /\ UNCHANGED <<now, issued, run, pkg>>

LoginWithPassword ==
    \E email \in Emails, password \in LongPasswords :
        LET input == [Email |-> email, Password |-> password]
        IN  \E r \in {SvcLogin(db, LoginManager, input, now, NoErr, NoErr)} :
            /\ last' = [NoOp EXCEPT !.op = "Login", !.in = input, !.out = r.out,
                          !.err = r.err, !.calls = r.calls, !.gen = r.gen]
            /\ UNCHANGED <<db, now, issued, run, pkg>>

NextCredentials == CreateWithPassword \/ LoginWithPassword

SpecCredentials == InitCredentials /\ [][NextCredentials]_vars

\* the user's stored hash is what Create stores for the password
StoredFor(user, password) ==
    \E salt \in Salts :
        /\ GenerateFromPassword(password, salt).err = NoErr
        /\ user.password = GenerateFromPassword(password, salt).hash

\* C15: for a user Create stored with the hash of password p, Login with
\* the user's email and p passes the password step and Login with any other
\* password fails with ErrInvalidCredentials; a stored hash that is
\* malformed makes Login fail with ErrInvalidCredentials.
C15_HashCompareRoundTrip ==
    (last.op = "Login" /\ FirstCall.err = NoErr) =>
        LET user == FirstCall.ret[1]
        IN  /\ \A p \in LongPasswords :
                  StoredFor(user, p) =>
                      IF last.in.Password = p
                      THEN user.is_active => last.gen # <<>>
                      ELSE last.err = ErrInvalidCredentials
            /\ user.password = MalformedHash => last.err = ErrInvalidCredentials

(***************************************************************************)
(* What leaves the services (Spec)                                         *)
(***************************************************************************)
\* the user summaries the last operation returned
ReturnedSummaries ==
    IF last.op = "Login" THEN {last.out[k].User : k \in 1 .. Len(last.out)}
    ELSE IF last.op \in {"Create", "FindByID", "FindAll", "Update"}
    THEN {last.out[k] : k \in 1 .. Len(last.out)}
    ELSE {}

\* values a stored password field may hold
StoredHashes ==
    {MalformedHash} \cup {HashOf(p, salt) : p \in Passwords, salt \in Salts}

\* C17: every user summary returned by Create, FindByID, FindAll, Update and
\* Login holds the id, name, email, role and is_active of a stored user and
\* nothing else; users that differ in the password hash only have the same
\* summary.
C17_NoPasswordOutward ==
    /\ \A r \in ReturnedSummaries :
          /\ DOMAIN r = {"ID", "Name", "Email", "Role", "IsActive"}
          /\ \E i \in 1 .. Len(db) :
                /\ r.ID = UUIDString(db[i].id)
                /\ r.Name = db[i].name
                /\ r.Email = db[i].email
                /\ r.Role = db[i].role
                /\ r.IsActive = db[i].is_active
    /\ \A i \in 1 .. Len(db), h \in StoredHashes :
          toUserResponse([db[i] EXCEPT !.password = h]) = toUserResponse(db[i])

C17_Witness ==
    /\ last.op = "FindAll"
    /\ Cardinality(ReturnedSummaries) = 2
    /\ \E i \in Live(db) : db[i].password = MalformedHash
    /\ \E i \in Live(db) : db[i].password = HashOf("pw1", 1)

(***************************************************************************)
(* Concurrent callers of the user service                                  *)
(* Every request runs the service's code on its own; the store calls of    *)
(* different requests interleave, each store call being one step.          *)
(***************************************************************************)
InitConcurrent ==
    /\ db \in InitTables
    /\ now = 0
    /\ last = NoOp
    /\ issued = {}
    /\ run = NoRun
    /\ pkg = NoPkg

\* a client enters Create, Update or Delete
Begin(c) ==
    /\ run[c].pc = "idle"
    /\ \E call \in
            {[op |-> "Create",
              in |-> [Name |-> "ann", Email |-> e, Password |-> "pw1"]] :
                 e \in Emails}
            \cup {[op |-> "Update", in |-> <<id, [Name |-> n]>>] :
                     id \in IdInputs, n \in {"", "bob"}}
            \cup {[op |-> "Delete", in |-> id] : id \in IdInputs} :
           run' = [run EXCEPT ![c] =
                      [Idle EXCEPT !.pc = "lookup", !.op = call.op, !.in = call.in]]
    /\ UNCHANGED <<db, now, last, issued, pkg>>

\* the lookup each of the three starts with
LookUp(c) ==
    /\ run[c].pc = "lookup"
    /\ \E f1 \in Faults :
        LET found == IF run[c].op = "Create"
                     THEN RepoFindByEmail(db, run[c].in.Email, f1)
                     ELSE IF run[c].op = "Update"
                     THEN RepoFindByID(db, run[c].in[1], f1)
                     ELSE RepoFindByID(db, run[c].in, f1)
            stop == IF run[c].op = "Create" THEN EmailTaken(found)
                    ELSE found.err # NoErr
            err == IF run[c].op = "Create" THEN ErrEmailAlreadyExists
                   ELSE LookupError(found.err)
        IN  run' = [run EXCEPT ![c] =
                      IF stop
                      THEN [@ EXCEPT !.pc = "done", !.seen = found.err,
                                     !.err = err]
                      ELSE [@ EXCEPT !.pc = "write", !.seen = found.err,
                                     !.found = found.user]]
    /\ UNCHANGED <<db, now, last, issued, pkg>>

\* the store write that follows a lookup that did not end the call
Write(c) ==
    /\ run[c].pc = "write"
    /\ \E f2 \in Faults, salt \in Salts :
        LET hashed == GenerateFromPassword(run[c].in.Password, salt)
            made == RepoCreate(db, NewUser(run[c].in, hashed.hash), f2)
            user == ApplyName(run[c].found[1], run[c].in[2])
            saved == RepoUpdate(db, user, f2)
            gone == RepoDelete(db, run[c].in, f2)
            r == IF run[c].op = "Create"
                 THEN [db |-> made.db, err |-> made.err,
                       out |-> IF made.err = NoErr
                               THEN <<toUserResponse(made.user)>> ELSE <<>>]
                 ELSE IF run[c].op = "Update"
                 THEN [db |-> saved.db, err |-> saved.err,
                       out |-> IF saved.err = NoErr
                               THEN <<toUserResponse(user)>> ELSE <<>>]
                 ELSE [db |-> gone.db, err |-> gone.err, out |-> <<>>]
        IN  /\ Len(r.db) <= MaxUsers
            /\ db' = r.db
            /\ run' = [run EXCEPT ![c] =
                          [@ EXCEPT !.pc = "done", !.err = r.err, !.out = r.out]]
    /\ UNCHANGED <<now, last, issued, pkg>>

\* the call returns to its client
Return(c) ==
    /\ run[c].pc = "done"
    /\ run' = [run EXCEPT ![c] = Idle]
    /\ UNCHANGED <<db, now, last, issued, pkg>>

NextConcurrent ==
    \E c \in Clients : Begin(c) \/ LookUp(c) \/ Write(c) \/ Return(c)

SpecConcurrent == InitConcurrent /\ [][NextConcurrent]_vars

\* C16: in every state reached by Create, Update and Delete calls, one after
\* another or overlapping, no two stored users have the same email.
C16_EmailsUnique ==
    \A i \in 1 .. Len(db), j \in 1 .. Len(db) :
        db[i].email = db[j].email => i = j

C16_Witness ==
    /\ Len(db) = 2
    /\ \A c \in Clients :
          run[c].pc = "done" /\ run[c].op = "Create" /\ run[c].in.Email = "b@x.io"
    /\ \E c \in Clients : run[c].err = NoErr
    /\ \E c \in Clients : run[c].err = ErrDuplicatedKey

(***************************************************************************)
(* pkg/response                                                            *)
(***************************************************************************)
Error(statusCode, message) == [status |-> statusCode, body |-> message]
BadRequest(message) == Error(400, message)
Unauthorized(message) == Error(401, message)
Forbidden(message) == Error(403, message)
NotFound(message) == Error(404, message)
ValidationError(errors) == [status |-> 422, body |-> errors]
Success(data) == [status |-> 200, body |-> data]
Created(data) == [status |-> 201, body |-> data]
NoContent == [status |-> 204, body |-> <<>>]

(***************************************************************************)
(* fiber's Ctx.BodyParser and pkg/validator                                *)
(* A request body is JSON or not; a JSON body is an object with the keys   *)
(* name, email and password, a key that is absent being the empty string   *)
(* (the zero value the decoder leaves in the field).                       *)
(***************************************************************************)
JsonBody(name, email, password) ==
    [json |-> TRUE, name |-> name, email |-> email, password |-> password]
BadJson == [json |-> FALSE, name |-> "", email |-> "", password |-> ""]

\* the fields of the input structs with their json keys and validate tags;
\* a tag is <<name, parameter>>
CreateUserInput ==
    <<[field |-> "Name", json |-> "name",
       tags |-> <<<<"required", 0>>, <<"min", 2>>, <<"max", 100>>>>],
      [field |-> "Email", json |-> "email",
       tags |-> <<<<"required", 0>>, <<"email", 0>>>>],
      [field |-> "Password", json |-> "password",
       tags |-> <<<<"required", 0>>, <<"min", 8>>>>]>>
UpdateUserInput ==
    <<[field |-> "Name", json |-> "name",
       tags |-> <<<<"omitempty", 0>>, <<"min", 2>>, <<"max", 100>>>>]>>
LoginInput ==
    <<[field |-> "Email", json |-> "email",
       tags |-> <<<<"required", 0>>, <<"email", 0>>>>],
      [field |-> "Password", json |-> "password",
       tags |-> <<<<"required", 0>>>>]>>

\* BodyParser: the struct filled from the body's keys, or an error
BodyParser(body, struct) ==
    IF ~body.json THEN [input |-> <<>>, err |-> "invalid character"]
    ELSE [input |-> <<[f \in {struct[k].field : k \in 1 .. Len(struct)} |->
                         body[struct[CHOOSE k \in 1 .. Len(struct) :
                                         struct[k].field = f].json]]>>,
          err |-> NoErr]

CharAt(s, k) == SubSeq(s, k, k)

\* the email tag: something, one "@", and a domain with a dot inside
IsEmail(v) ==
    \E at \in 2 .. Len(v) - 3 :
        /\ CharAt(v, at) = "@"
        /\ \A k \in 1 .. Len(v) : CharAt(v, k) = "@" => k = at
        /\ \E dot \in at + 2 .. Len(v) - 1 : CharAt(v, dot) = "."

\* whether a value passes a tag
Passes(tag, v) ==
    IF tag[1] = "required" THEN v # ""
    ELSE IF tag[1] = "email" THEN IsEmail(v)
    ELSE IF tag[1] = "min" THEN Len(v) >= tag[2]
    ELSE IF tag[1] = "max" THEN Len(v) <= tag[2]
    ELSE TRUE

\* the error of a field: that of the first tag it fails; omitempty ends the
\* checks of an empty value
RECURSIVE FieldErrors(_, _, _)
FieldErrors(name, v, tags) ==
    IF tags = <<>> THEN <<>>
    ELSE IF Head(tags)[1] = "omitempty"
    THEN IF v = "" THEN <<>> ELSE FieldErrors(name, v, Tail(tags))
    ELSE IF ~Passes(Head(tags), v)
    THEN <<[Field |-> name, Tag |-> Head(tags)[1]]>>
    ELSE FieldErrors(name, v, Tail(tags))

\* the validator's pass over a struct: the errors of the fields, in the
\* order of the struct
RECURSIVE StructErrors(_, _)
StructErrors(input, struct) ==
    IF struct = <<>> THEN <<>>
    ELSE FieldErrors(Head(struct).json, input[Head(struct).field],
                     Head(struct).tags)
             \o StructErrors(input, Tail(struct))

\* ValidateInput that finds every input in order
ValidateInputLax(input, struct) == <<>>

\* validator.Validate: one ErrorResponse for each error of the struct
ValidateInput(input, struct) == StructErrors(input, struct)

(***************************************************************************)
(* handler.UserHandler and handler.AuthHandler                             *)
(* A handler yields its response, the call it made on its service (svc,    *)
(* none or one), the error the service returned, the store calls and the   *)
(* table it leaves.                                                        *)
(***************************************************************************)
\* a handler that answered without calling its service
Answered(d, resp) ==
    [resp |-> resp, svc |-> <<>>, err |-> NoErr, calls |-> <<>>, db |-> d]

\* a handler that answered after its service returned r
Served(fn, in, r, resp) ==
    [resp |-> resp, svc |-> <<[fn |-> fn, in |-> in]>>, err |-> r.err,
     calls |-> r.calls, db |-> r.db]

CreateError(err) ==
    IF err = ErrEmailAlreadyExists THEN BadRequest(err)
    ELSE InternalServerError("Failed to create user")

HandlerCreate(d, body, salt, f1, f2) ==
    LET parsed == BodyParser(body, CreateUserInput)
        input == parsed.input[1]
        errs == ValidateInput(input, CreateUserInput)
        r == SvcCreate(d, input, salt, f1, f2)
    IN  IF parsed.err # NoErr
        THEN Answered(d, BadRequest("Invalid request body"))
        ELSE IF Len(errs) > 0 THEN Answered(d, ValidationError(errs))
        ELSE Served("Create", input, r,
                    IF r.err # NoErr THEN CreateError(r.err)
                    ELSE Created(r.out[1]))

FindByIDError(err) ==
    IF err = ErrUserNotFound THEN NotFound(err)
    ELSE InternalServerError("Failed to fetch user")

HandlerFindByID(d, id, f1) ==
    LET r == SvcFindByID(d, id, f1)
    IN  Served("FindByID", id, r,
               IF r.err # NoErr THEN FindByIDError(r.err) ELSE Success(r.out[1]))

\* UpdateError answering every failure alike
UpdateErrorFlat(err) == InternalServerError("Failed to update user")

UpdateError(err) ==
    IF err = ErrUserNotFound THEN NotFound(err)
    ELSE InternalServerError("Failed to update user")

HandlerUpdate(d, id, body, f1, f2) ==
    LET parsed == BodyParser(body, UpdateUserInput)
        input == parsed.input[1]
        errs == ValidateInput(input, UpdateUserInput)
        r == SvcUpdate(d, id, input, f1, f2)
    IN  IF parsed.err # NoErr
        THEN Answered(d, BadRequest("Invalid request body"))
        ELSE IF Len(errs) > 0 THEN Answered(d, ValidationError(errs))
        ELSE Served("Update", <<id, input>>, r,
                    IF r.err # NoErr THEN UpdateError(r.err)
                    ELSE Success(r.out[1]))

DeleteError(err) ==
    IF err = ErrUserNotFound THEN NotFound(err)
    ELSE InternalServerError("Failed to delete user")

HandlerDelete(d, id, f1, f2) ==
    LET r == SvcDelete(d, id, f1, f2)
    IN  Served("Delete", id, r,
               IF r.err # NoErr THEN DeleteError(r.err) ELSE NoContent)

LoginError(err) ==
    IF err = ErrInvalidCredentials THEN Unauthorized("Invalid email or password")
    ELSE InternalServerError("Login failed")

HandlerLogin(d, m, body, t, f1, fsign) ==
    LET parsed == BodyParser(body, LoginInput)
        input == parsed.input[1]
        errs == ValidateInput(input, LoginInput)
        r == SvcLogin(d, m, input, t, f1, fsign)
    IN  IF parsed.err # NoErr
        THEN Answered(d, BadRequest("Invalid request body"))
        ELSE IF Len(errs) > 0 THEN Answered(d, ValidationError(errs))
        ELSE Served("Login", input, [err |-> r.err, calls |-> r.calls, db |-> d],
                    IF r.err # NoErr THEN LoginError(r.err)
                    ELSE Success(r.out[1]))

\* GET /auth/me: what the middleware left in the request's locals
HandlerMe(d, locals) ==
    Answered(d, Success([user_id |-> locals.user_id, email |-> locals.email,
                         role |-> locals.role]))

(***************************************************************************)
(* middleware.Auth and middleware.RoleRequired                             *)
(* An Authorization header is the sequence of its words and spaces; a word *)
(* is a sequence too (a token is its own three parts), so that words with  *)
(* no space between them run together.                                     *)
(***************************************************************************)
Space == <<" ">>
Bearer == <<"Bearer">>
Basic == <<"Basic">>

\* strings.Split(s, " "): the runs between the spaces, empty runs included
RECURSIVE Split(_)
Split(s) ==
    IF s = <<>> THEN <<<<>>>>
    ELSE LET rest == Split(Tail(s))
         IN  IF Head(s) = Space THEN <<<<>>>> \o rest
             ELSE <<Head(s) \o Head(rest)>> \o Tail(rest)

\* a middleware that answered itself, and one that called c.Next()
Stop(resp) == [next |-> FALSE, resp |-> resp, locals |-> <<>>]
Pass(locals) == [next |-> TRUE, resp |-> NoOp.resp, locals |-> locals]

\* Auth taking the token whatever the scheme in front of it
AuthAnyScheme(m, authHeader, t) ==
    LET parts == Split(authHeader)
        v == Validate(m, parts[2], t)
    IN  IF authHeader = <<>>
        THEN Stop(Unauthorized("Missing authorization header"))
        ELSE IF Len(parts) # 2
        THEN Stop(Unauthorized("Invalid authorization format"))
        ELSE IF v.err # NoErr THEN Stop(Unauthorized(v.err))
        ELSE Pass(<<[user_id |-> v.claims[1].UserID, email |-> v.claims[1].Email,
                     role |-> v.claims[1].Role]>>)

\* Auth setting the role local to "user" whatever the token's role claim
AuthDefaultRole(m, authHeader, t) ==
    LET parts == Split(authHeader)
        v == Validate(m, parts[2], t)
    IN  IF authHeader = <<>>
        THEN Stop(Unauthorized("Missing authorization header"))
        ELSE IF Len(parts) # 2 \/ parts[1] # Bearer
        THEN Stop(Unauthorized("Invalid authorization format"))
        ELSE IF v.err # NoErr THEN Stop(Unauthorized(v.err))
        ELSE Pass(<<[user_id |-> v.claims[1].UserID, email |-> v.claims[1].Email,
                     role |-> "user"]>>)

Auth(m, authHeader, t) ==
    LET parts == Split(authHeader)
        v == Validate(m, parts[2], t)
    IN  IF authHeader = <<>>
        THEN Stop(Unauthorized("Missing authorization header"))
        ELSE IF Len(parts) # 2 \/ parts[1] # Bearer
        THEN Stop(Unauthorized("Invalid authorization format"))
        ELSE IF v.err # NoErr THEN Stop(Unauthorized(v.err))
        ELSE Pass(<<[user_id |-> v.claims[1].UserID, email |-> v.claims[1].Email,
                     role |-> v.claims[1].Role]>>)

\* RoleRequired letting every role through
RoleRequiredAnyone(roles, locals) == Pass(locals)

RoleRequired(roles, locals) ==
    IF locals[1].role \in roles THEN Pass(locals)
    ELSE Stop(Forbidden("Insufficient permissions"))

(***************************************************************************)
(* router.Setup: the routes of /api/v1, each with its chain of handlers    *)
(* The requests are made at the instant MaxTime, with tokens issued at     *)
(* that instant or long before.                                            *)
(***************************************************************************)
\* a manager with another secret than the router's
OtherManager == [secret |-> "k2", expireHours |-> 1]

TokenFor(m, sub, t) == Generate(m, sub[1], sub[2], sub[3], t, NoErr).token
AdminSubject == <<UUIDString(1), "a@x.io", "admin">>
AdminToken == TokenFor(LoginManager, AdminSubject, MaxTime)

\* tokens a client may present: issued by the router's manager now or at
\* instant 0, issued under another secret, or no token at all
PresentedTokens ==
    {MalformedToken, TokenFor(OtherManager, AdminSubject, MaxTime)}
        \cup {TokenFor(LoginManager, sub, t) : sub \in Subjects, t \in {0, MaxTime}}

\* Authorization headers: none, "Bearer", "Bearer  <token>", "Basic <token>"
\* and "Bearer <token>"
AuthHeaders ==
    {<<>>, <<Bearer>>, <<Bearer, Space, Space, AdminToken>>,
     <<Basic, Space, AdminToken>>}
        \cup {<<Bearer, Space, tok>> : tok \in PresentedTokens}

LoginBodies ==
    {BadJson, JsonBody("", "nobody", "pw1"), JsonBody("", "a@x.io", "")}
        \cup {JsonBody("", e, pw) : e \in Emails, pw \in Passwords}
CreateBodies ==
    {BadJson, JsonBody("", "", ""), JsonBody("a", "a@x.io", "password1"),
     JsonBody("ann", "b@x.io", "pw1")}
        \cup {JsonBody("ann", e, "password1") : e \in Emails}
UpdateBodies ==
    {BadJson, JsonBody("b", "", ""), JsonBody("", "", ""), JsonBody("bob", "", "")}

InitAPI ==
    /\ db \in InitTables
    /\ now = MaxTime
    /\ last = NoOp
    /\ issued = {}
    /\ run = NoRun
    /\ pkg = NoPkg

\* what a request carried
Request(header, id, body, query) ==
    [header |-> header, id |-> id, body |-> body, query |-> query]

\* the request is answered: chain lists the handlers of the route that ran
Respond(route, in, chain, locals, r) ==
    /\ Len(r.db) <= MaxUsers
    /\ db' = r.db
    /\ last' = [NoOp EXCEPT !.op = route, !.in = in, !.resp = r.resp,
                  !.svc = r.svc, !.err = r.err, !.calls = r.calls,
                  !.chain = chain, !.locals = locals, !.changed = (r.db # db)]
    /\ UNCHANGED <<now, issued, run, pkg>>

PostLogin ==
    \E body \in LoginBodies, f1 \in Faults, fsign \in {NoErr, ErrSigning} :
        \E r \in {HandlerLogin(db, LoginManager, body, now, f1, fsign)} :
            Respond("POST /auth/login", Request(<<>>, <<>>, body, <<>>),
                    <<"Login">>, <<>>, r)

GetMe ==
    \E header \in AuthHeaders :
        \E a \in {Auth(LoginManager, header, now)} :
            IF ~a.next
            THEN Respond("GET /auth/me", Request(header, <<>>, <<>>, <<>>),
                         <<"Auth">>, <<>>, Answered(db, a.resp))
            ELSE Respond("GET /auth/me", Request(header, <<>>, <<>>, <<>>),
                         <<"Auth", "Me">>, a.locals, HandlerMe(db, a.locals[1]))

PostUsers ==
    \E body \in CreateBodies, salt \in Salts, f1 \in Faults, f2 \in Faults :
        \E r \in {HandlerCreate(db, body, salt, f1, f2)} :
            Respond("POST /users", Request(<<>>, <<>>, body, <<>>),
                    <<"Create">>, <<>>, r)

ListUsersRoute ==
    \E header \in AuthHeaders :
        \E a \in {Auth(LoginManager, header, now)} :
            IF ~a.next
            THEN Respond("GET /users/", Request(header, <<>>, <<>>, <<>>),
                         <<"Auth">>, <<>>, Answered(db, a.resp))
            ELSE \E pageQ \in {<<>>, <<"2">>}, perPageQ \in {<<>>, <<"1">>},
                    f2 \in Faults :
                   \E r \in {HandlerFindAll(db, pageQ, perPageQ, NoErr, f2)} :
                       Respond("GET /users/",
                               Request(header, <<>>, <<>>,
                                       [page |-> pageQ, per_page |-> perPageQ]),
                               <<"Auth", "FindAll">>, a.locals,
                               [resp |-> r.resp, svc |-> r.svc,
                                err |-> r.calls[1].err, calls |-> r.calls,
                                db |-> db])

GetUser ==
    \E header \in AuthHeaders :
        \E a \in {Auth(LoginManager, header, now)} :
            IF ~a.next
            THEN Respond("GET /users/:id", Request(header, <<>>, <<>>, <<>>),
                         <<"Auth">>, <<>>, Answered(db, a.resp))
            ELSE \E id \in IdInputs, f1 \in Faults :
                   Respond("GET /users/:id", Request(header, id, <<>>, <<>>),
                           <<"Auth", "FindByID">>, a.locals,
                           HandlerFindByID(db, id, f1))

PutUser ==
    \E header \in AuthHeaders :
        \E a \in {Auth(LoginManager, header, now)} :
            IF ~a.next
            THEN Respond("PUT /users/:id", Request(header, <<>>, <<>>, <<>>),
                         <<"Auth">>, <<>>, Answered(db, a.resp))
            ELSE \E id \in IdInputs, body \in UpdateBodies,
                    f1 \in Faults, f2 \in Faults :
                   Respond("PUT /users/:id", Request(header, id, body, <<>>),
                           <<"Auth", "Update">>, a.locals,
                           HandlerUpdate(db, id, body, f1, f2))

DeleteUser ==
    \E header \in AuthHeaders :
        \E a \in {Auth(LoginManager, header, now)} :
            IF ~a.next
            THEN Respond("DELETE /users/:id", Request(header, <<>>, <<>>, <<>>),
                         <<"Auth">>, <<>>, Answered(db, a.resp))
            ELSE \E id \in IdInputs, f1 \in Faults, f2 \in Faults :
                   \E g \in {RoleRequired({"admin"}, a.locals)} :
                       IF ~g.next
                       THEN Respond("DELETE /users/:id",
                                    Request(header, id, <<>>, <<>>),
                                    <<"Auth", "RoleRequired">>, a.locals,
                                    Answered(db, g.resp))
                       ELSE Respond("DELETE /users/:id",
                                    Request(header, id, <<>>, <<>>),
                                    <<"Auth", "RoleRequired", "Delete">>,
                                    a.locals, HandlerDelete(db, id, f1, f2))

NextAPI ==
    PostLogin \/ GetMe \/ PostUsers \/ ListUsersRoute \/ GetUser \/ PutUser
        \/ DeleteUser

SpecAPI == InitAPI /\ [][NextAPI]_vars

\* nothing the requests leave in the record is undefined
TypeAPI == last.resp.status \in {0, 200, 201, 204, 400, 401, 403, 404, 422, 500}

(***************************************************************************)
(* Properties of the routes (SpecAPI)                                      *)
(***************************************************************************)
\* the service method the last request's handler called, when it called one
ServiceCalled(fn) == last.svc # <<>> /\ last.svc[1].fn = fn

\* the response is a 500 with the message and nothing else
Is500(message) == last.resp = [status |-> 500, body |-> message]

\* C18: the handlers map the errors of their service by identity:
\* ErrEmailAlreadyExists of Create to 400, ErrUserNotFound of FindByID,
\* Update and Delete to 404, ErrInvalidCredentials of Login to 401, and any
\* other error to 500 with the endpoint's fixed message, whatever the
\* error's text.
C18_ErrorsByIdentity ==
    last.err # NoErr =>
        /\ ServiceCalled("Create") =>
              IF last.err = ErrEmailAlreadyExists THEN last.resp.status = 400
              ELSE Is500("Failed to create user")
        /\ ServiceCalled("FindByID") =>
              IF last.err = ErrUserNotFound THEN last.resp.status = 404
              ELSE Is500("Failed to fetch user")
        /\ ServiceCalled("FindAll") => Is500("Failed to fetch users")
        /\ ServiceCalled("Update") =>
              IF last.err = ErrUserNotFound THEN last.resp.status = 404
              ELSE Is500("Failed to update user")
        /\ ServiceCalled("Delete") =>
              IF last.err = ErrUserNotFound THEN last.resp.status = 404
              ELSE Is500("Failed to delete user")
        /\ ServiceCalled("Login") =>
              IF last.err = ErrInvalidCredentials THEN last.resp.status = 401
              ELSE Is500("Login failed")

C18_Witness ==
    /\ ServiceCalled("Create")
    /\ last.err = ErrDuplicatedKey
    /\ Is500("Failed to create user")

\* what the validate tags of the three input structs ask of a body
NameInRange(v) == Len(v) >= 2 /\ Len(v) <= 100
BodyInOrder(route, body) ==
    IF route = "POST /auth/login"
    THEN IsEmail(body.email) /\ body.password # ""
    ELSE IF route = "POST /users"
    THEN NameInRange(body.name) /\ IsEmail(body.email) /\ Len(body.password) >= 8
    ELSE body.name = "" \/ NameInRange(body.name)

\* the last request reached the handler that parses a body
BodyHandled ==
    /\ last.op \in {"POST /auth/login", "POST /users", "PUT /users/:id"}
    /\ last.chain[Len(last.chain)] \in {"Login", "Create", "Update"}

\* C19: on the login, create-user and update-user endpoints the service is
\* called only after the body was parsed and validation found no error: a
\* body that cannot be parsed gives 400, one that fails validation gives
\* 422, and in both cases the service is not called.
C19_ValidatedBeforeService ==
    BodyHandled =>
        /\ ~last.in.body.json =>
              (last.resp.status = 400 /\ last.svc = <<>> /\ last.calls = <<>>)
        /\ (last.in.body.json /\ ~BodyInOrder(last.op, last.in.body)) =>
              (last.resp.status = 422 /\ last.svc = <<>> /\ last.calls = <<>>)
        /\ last.svc # <<>> =>
              (last.in.body.json /\ BodyInOrder(last.op, last.in.body))

C19_Witness ==
    /\ BodyHandled
    /\ last.op = "POST /users"
    /\ last.in.body = JsonBody("ann", "b@x.io", "pw1")
    /\ last.resp = ValidationError(<<[Field |-> "password", Tag |-> "min"]>>)
    /\ last.svc = <<>>

AuthRoutes ==
    {"GET /auth/me", "GET /users/", "GET /users/:id", "PUT /users/:id",
     "DELETE /users/:id"}

\* the header is "Bearer", one space, and a token the manager accepts now
Accepted(header) ==
    /\ Len(header) = 3
    /\ header[1] = Bearer
    /\ header[2] = Space
    /\ header[3] # Space
    /\ Validate(LoginManager, header[3], now).err = NoErr

\* C20: on every route behind Auth the next handler runs only if the
\* Authorization header is "Bearer", a space and a token Validate accepts;
\* otherwise the answer is 401 and no handler runs.  When it runs, the
\* locals user_id, email and role are those of the token's claims.
C20_AuthGuards ==
    last.op \in AuthRoutes =>
        /\ last.chain[1] = "Auth"
        /\ ~Accepted(last.in.header) =>
              /\ last.resp.status = 401
              /\ last.chain = <<"Auth">>
              /\ last.svc = <<>>
              /\ last.calls = <<>>
        /\ Len(last.chain) > 1 =>
              /\ Accepted(last.in.header)
              /\ last.locals =
                    <<[user_id |-> last.in.header[3][2].UserID,
                       email |-> last.in.header[3][2].Email,
                       role |-> last.in.header[3][2].Role]>>
        /\ (last.op = "GET /auth/me" /\ last.resp.status = 200) =>
              last.resp.body = last.locals[1]

C20_Witness ==
    /\ last.op = "PUT /users/:id"
    /\ last.chain = <<"Auth", "Update">>
    /\ last.locals = <<[user_id |-> UUIDString(2), email |-> "b@x.io",
                        role |-> "user"]>>
    /\ last.resp.status = 200

\* C21: the user service's Delete is called for DELETE /users/:id only when
\* the request carries a valid token whose role claim is "admin"; a valid
\* token with another role is answered 403 with no Delete call.
\* RoleRequired runs only after Auth has set the role local.
C21_DeleteAdminOnly ==
    last.op = "DELETE /users/:id" =>
        /\ ServiceCalled("Delete") =>
              /\ Accepted(last.in.header)
              /\ last.in.header[3][2].Role = "admin"
              /\ last.chain = <<"Auth", "RoleRequired", "Delete">>
        /\ (Accepted(last.in.header) /\ last.in.header[3][2].Role # "admin") =>
              /\ last.resp = Forbidden("Insufficient permissions")
              /\ last.chain = <<"Auth", "RoleRequired">>
              /\ last.svc = <<>>
              /\ last.calls = <<>>
              /\ ~last.changed
        /\ (\E k \in 1 .. Len(last.chain) : last.chain[k] = "RoleRequired") =>
              /\ last.chain[1] = "Auth"
              /\ last.chain[2] = "RoleRequired"
              /\ Len(last.locals) = 1
              /\ last.locals[1].role \in {"admin", "user"}

C21_Witness ==
    /\ last.op = "DELETE /users/:id"
    /\ Accepted(last.in.header)
    /\ last.locals[1].role = "user"
    /\ last.resp.status = 403
    /\ \E i \in Live(db) : UUIDString(db[i].id) = last.in.id

(***************************************************************************)
(* Properties of the store's FindAll (SpecHTTP)                            *)
(***************************************************************************)
\* the rows at the zero-based positions lo .. hi of a listing
Positions(rows, lo, hi) ==
    LET from == IF lo < 0 THEN 1 ELSE lo + 1
        upto == IF hi + 1 > Len(rows) THEN Len(rows) ELSE hi + 1
    IN  IF from > upto THEN <<>> ELSE SubSeq(rows, from, upto)

\* FindAll was called and both of its queries went through
FoundAll ==
    last.op = "FindAll" /\ last.faults = <<NoErr, NoErr>>

C23_RemovedForGood ==
    [][\A i \in 1 .. Len(db) : db[i].deleted => db'[i].deleted]_vars

(***************************************************************************)
(* Properties of the paginated response (SpecHTTP)                         *)
(***************************************************************************)
\* n is the ceiling of total / perPage
IsCeiling(n, total, perPage) ==
    /\ n >= 0
    /\ n * perPage >= total
    /\ n = 0 \/ (n - 1) * perPage < total

\* totals around the multiples of a page size
TotalsAround(perPage) ==
    {0, 1, perPage - 1, perPage, perPage + 1, 2 * perPage, 2 * perPage + 1,
     PerPageMax * perPage + 1}

\* C24: total_pages of a paginated response is the ceiling of
\* total / per_page for every total >= 0 and every per_page in [1,100], and
\* GET /users never builds the response with per_page = 0.
C24_TotalPagesCeiling ==
    /\ \A perPage \in 1 .. PerPageMax :
          \A total \in TotalsAround(perPage) :
              IsCeiling(Paginated(<<>>, total, 1, perPage).body.total_pages,
                        total, perPage)
    /\ (last.op = "GET /users" /\ last.resp.status = 200) =>
          /\ last.resp.body.per_page >= 1
          /\ last.resp.body.per_page <= PerPageMax
          /\ IsCeiling(last.resp.body.total_pages, last.resp.body.total,
                       last.resp.body.per_page)

C24_Witness ==
    /\ last.op = "GET /users"
    /\ last.in.per_page = <<"0">>
    /\ last.resp.status = 200
    /\ last.resp.body.total = 2
    /\ last.resp.body.per_page = PerPageDefault
    /\ last.resp.body.total_pages = 1

(***************************************************************************)
(* The package-level instances of pkg/logger and pkg/validator             *)
(* Clients call Init and Get of either package; a call is a sequence of    *)
(* steps: Get's test of the variable, the construction, the return.  An    *)
(* instance is <<package, number of the construction, env>>.               *)
(***************************************************************************)
InitSingletons ==
    /\ db = <<>>
    /\ now = 0
    /\ last = NoOp
    /\ issued = {}
    /\ run = NoRun
    /\ pkg = NoPkg

\* a client with no call under way enters Init or Get of a package
Enter(c) ==
    /\ run[c].pc \in {"idle", "done"}
    /\ \E call \in {[op |-> "logger.Init", in |-> env] :
                       env \in {"production", "development"}}
                   \cup {[op |-> "logger.Get", in |-> "development"],
                         [op |-> "validator.Init", in |-> ""],
                         [op |-> "validator.Get", in |-> ""]} :
           run' = [run EXCEPT ![c] =
                      [Idle EXCEPT !.op = call.op, !.in = call.in,
                                   !.pc = IF call.op \in {"logger.Get", "validator.Get"}
                                          THEN "test" ELSE "init"]]
    /\ UNCHANGED <<db, now, last, issued, pkg>>

\* Get: if log == nil / if validate == nil
TestNil(c) ==
    /\ run[c].pc = "test"
    /\ LET held == IF run[c].op = "logger.Get" THEN pkg.log ELSE pkg.validate
       IN  run' = [run EXCEPT ![c] =
                      [@ EXCEPT !.pc = IF held = <<>> THEN "init" ELSE "return"]]
    /\ UNCHANGED <<db, now, last, issued, pkg>>

\* Init: the logger's body runs under once.Do, the validator's body as it is
Construct(c) ==
    /\ run[c].pc = "init"
    /\ run[c].op \in {"validator.Init", "validator.Get"}
           => pkg.validateBuilt < MaxBuilds
    /\ pkg' = IF run[c].op \in {"logger.Init", "logger.Get"}
              THEN IF pkg.once THEN pkg
                   ELSE [pkg EXCEPT !.once = TRUE,
                                    !.logBuilt = @ + 1,
                                    !.log = <<<<"logger", pkg.logBuilt + 1,
                                                run[c].in>>>>]
              ELSE [pkg EXCEPT !.validateBuilt = @ + 1,
                               !.validate = <<<<"validator",
                                                pkg.validateBuilt + 1, "">>>>]
    /\ run' = [run EXCEPT ![c] =
                  [@ EXCEPT !.pc = IF run[c].op \in {"logger.Get", "validator.Get"}
                                   THEN "return" ELSE "done"]]
    /\ UNCHANGED <<db, now, last, issued>>

\* Get: return log / return validate
ReturnInstance(c) ==
    /\ run[c].pc = "return"
    /\ run' = [run EXCEPT ![c] =
                  [@ EXCEPT !.pc = "done",
                            !.out = IF run[c].op = "logger.Get" THEN pkg.log
                                    ELSE pkg.validate]]
    /\ UNCHANGED <<db, now, last, issued, pkg>>

NextSingletons ==
    \E c \in Clients :
        Enter(c) \/ TestNil(c) \/ Construct(c) \/ ReturnInstance(c)

SpecSingletons == InitSingletons /\ [][NextSingletons]_vars

\* C25: the logger and the validator are each constructed at most once, for
\* any number and interleaving of Init and Get calls: the construction body
\* runs once and a later Init leaves the instance in place.
C25_ConstructedOnce ==
    /\ pkg.logBuilt <= 1
    /\ pkg.validateBuilt <= 1
    /\ pkg.log \in {<<>>, <<<<"logger", 1, "production">>>>,
                    <<<<"logger", 1, "development">>>>}
    /\ pkg.validate \in {<<>>, <<<<"validator", 1, "">>>>}

\* the logger's part of C25
LoggerConstructedOnce == pkg.logBuilt <= 1

(***************************************************************************)
(* Two calls of the same operation on the same key                         *)
(***************************************************************************)
\* both clients have finished a call of op with the same input, and no store
\* call of either met a backend fault (seen is the error of the lookup)
BothDone(op) ==
    /\ \A c \in Clients :
          /\ run[c].pc = "done"
          /\ run[c].op = op
          /\ run[c].seen # ErrConnRefused
          /\ run[c].err # ErrConnRefused
    /\ \A c1 \in Clients, c2 \in Clients : run[c1].in = run[c2].in

\* C26: of two Create calls with the same email on a store that did not hold
\* the email, one succeeds and the other fails with ErrEmailAlreadyExists,
\* however their store calls interleave.
C26_OneCreateWins ==
    (BothDone("Create") /\ \E c \in Clients : run[c].err = NoErr) =>
        \E c \in Clients : run[c].err = ErrEmailAlreadyExists

\* the calls of C26 when they do not overlap: the second finds the email
CreateOneAfterTheOther ==
    /\ BothDone("Create")
    /\ \E c \in Clients : run[c].err = NoErr
    /\ \E c \in Clients : run[c].err = ErrEmailAlreadyExists

\* C27: of two Delete calls for the same existing id, one succeeds and the
\* other fails with ErrUserNotFound, however their store calls interleave.
C27_OneDeleteWins ==
    (BothDone("Delete") /\ \E c \in Clients : run[c].err = NoErr) =>
        \E c \in Clients : run[c].err = ErrUserNotFound

\* C27, second part: a Delete whose store call is applied when no live row
\* has the id does not return success.
DeleteOfRemovedFails ==
    [][\A c \in Clients :
          (/\ run[c].pc = "write"
           /\ run[c].op = "Delete"
           /\ run'[c].pc = "done"
           /\ ~\E i \in Live(db) : UUIDString(db[i].id) = run[c].in)
              => run'[c].err # NoErr]_vars

\* the calls of C27 when they do not overlap: the second finds no user
DeleteOneAfterTheOther ==
    /\ BothDone("Delete")
    /\ \E c \in Clients : run[c].err = NoErr
    /\ \E c \in Clients : run[c].err = ErrUserNotFound

(***************************************************************************)
(* Create after Delete                                                     *)
(***************************************************************************)
\* the last operation was a Create on a healthy backend with the email of a
\* user that Delete removed, and of no user that is left
CreateAfterDelete ==
    /\ last.op = "Create"
    /\ FirstCall.err = ErrRecordNotFound
    /\ Called("Create")
    /\ WriteCall.err # ErrConnRefused
    /\ \E i \in 1 .. Len(db) : db[i].deleted /\ db[i].email = last.in.Email

\* C28: an email is free again once its user is deleted: a Create with the
\* email of a deleted user, on a healthy backend, succeeds.
C28_EmailFreeAfterDelete ==
    CreateAfterDelete => (last.err = NoErr /\ last.out # <<>>)

(***************************************************************************)
(* The errors of FindAll                                                   *)
(***************************************************************************)
\* the rows of the page the last FindAll asked the store for
AskedPage ==
    PageSlice(LiveRows(db), WrapInt((StoreCall.arg[1] - 1) * StoreCall.arg[2]),
              StoreCall.arg[2])

\* C29: the store's FindAll returns an error exactly when its page query
\* fails; with a failing count and a succeeding page query the result is the
\* page's items, total 0 and no error.  The service's FindAll returns
\* (nil, 0, err) on a store error and otherwise one summary per item, in the
\* same order, with the store's total.
C29_FindAllErrors ==
    last.op = "FindAll" =>
        LET countFault == last.faults[1]
            findFault == last.faults[2]
        IN  /\ StoreCall.fn = "FindAll"
            /\ StoreCall.err = findFault
            /\ last.err = findFault
            /\ findFault # NoErr => (last.out = <<>> /\ last.total = 0)
            /\ findFault = NoErr =>
                  /\ Len(last.out) = Len(AskedPage)
                  /\ \A k \in 1 .. Len(AskedPage) :
                        last.out[k] = toUserResponse(AskedPage[k])
                  /\ last.total = IF countFault = NoErr
                                  THEN Len(LiveRows(db)) ELSE 0

C29_Witness ==
    /\ last.op = "FindAll"
    /\ last.faults = <<ErrConnRefused, NoErr>>
    /\ last.err = NoErr
    /\ last.total = 0
    /\ Len(last.out) = 2
    /\ last.out[1].Email = "a@x.io"
    /\ last.out[2].Email = "b@x.io"

(***************************************************************************)
(* Auth and the user store                                                 *)
(***************************************************************************)
\* the locals Auth sets for a token issued for the subject
LocalsOf(sub) == <<[user_id |-> sub[1], email |-> sub[2], role |-> sub[3]]>>

\* C30: what Auth decides and the locals it sets are a function of the
\* Authorization header, the manager's secret and the time alone: a token
\* Login issued is accepted with the id, email and role it was issued for
\* until it expires, whatever the users table holds by then (the user
\* deleted, inactive or renamed), and refused from its expiry on.
C30_AuthIgnoresStore ==
    last.op \in AuthRoutes =>
        /\ LET a == Auth(LoginManager, last.in.header, now)
           IN  /\ (Len(last.chain) > 1) = a.next
               /\ a.next => last.locals = a.locals
               /\ ~a.next => last.resp = a.resp
        /\ \A sub \in Subjects, t \in {0, MaxTime} :
              last.in.header = <<Bearer, Space, TokenFor(LoginManager, sub, t)>> =>
                  IF now < t + LoginManager.expireHours
                  THEN /\ Len(last.chain) > 1
                       /\ last.locals = LocalsOf(sub)
                  ELSE /\ last.chain = <<"Auth">>
                       /\ last.resp.status = 401

\* the admin's token is accepted after the admin was renamed and deleted
C30_Witness ==
    /\ last.op = "GET /auth/me"
    /\ last.in.header = <<Bearer, Space, AdminToken>>
    /\ last.resp = Success(LocalsOf(AdminSubject)[1])
    /\ Len(db) > 0
    /\ db[1].id = 1
    /\ db[1].deleted
    /\ db[1].name = "bob"

\* the token of a user who is not active is accepted
InactiveAccepted ==
    /\ last.op = "GET /users/:id"
    /\ last.locals = LocalsOf(<<UUIDString(2), "b@x.io", "user">>)
    /\ last.resp.status = 200
    /\ \E i \in Live(db) : db[i].id = 2 /\ ~db[i].is_active

====
